---- MODULE Spec2Model ----
(***************************************************************************)
(* Receipt ingestion: the response validator and extractor of              *)
(* utils/groq_client.py, the transaction store of utils/snowflake_conn.py  *)
(* and utils/snowflake_helpers.py, and the session of app.py.              *)
(*                                                                         *)
(* Decoded JSON values are tagged records [t, v].  Finite floats are held  *)
(* in tenths (FloatV(9) is 0.9), integers in units.                         *)
(***************************************************************************)
EXTENDS Integers, Sequences, FiniteSets, TLC

VARIABLES
    reply,      \* the decoded LLM reply handed to the validator
    text,       \* the receipt text (original_desc / text argument)
    vout,       \* what the last validator / extractor call returned
    vcall,      \* which call produced vout, and how it ended
    store,      \* the rows of table transactions, in insertion order
    uuidCount,  \* how many identifiers uuid.uuid4() has handed out
    last,       \* the last store operation: its arguments and its outcome
    saved,      \* the transaction of the save that the next listing follows
    autoOnly,   \* TRUE while every insert so far carried no explicit id
    session,    \* st.session_state of app.py: the keys it holds
    ui,         \* the last interaction with app.py and what the page showed
    held        \* which extraction receipt_data holds, and the successful
                \* inserts each extraction has led to

vars == <<reply, text, vout, vcall, store, uuidCount, last, saved, autoOnly,
          session, ui, held>>
vvars == <<reply, text, vout, vcall>>
svars == <<store, uuidCount, last, saved, autoOnly>>
uvars == <<session, ui, held>>

(***************************************************************************)
(* Python values                                                           *)
(***************************************************************************)
Null == [t |-> "null", v |-> 0]
Bool(b) == [t |-> "bool", v |-> b]
IntV(n) == [t |-> "int", v |-> n]
FloatV(n) == [t |-> "float", v |-> n]
NaN == [t |-> "nan", v |-> 0]
PInf == [t |-> "inf", v |-> 1]
NInf == [t |-> "inf", v |-> -1]
Str(s) == [t |-> "str", v |-> s]
List(q) == [t |-> "list", v |-> q]
Obj(f) == [t |-> "obj", v |-> f]
EmptyObj == Obj([k \in {} |-> Null])

Raise == [ok |-> FALSE, val |-> Null]
Ok(x) == [ok |-> TRUE, val |-> x]

\* x > y and x < y on Python numbers (int, float, nan, inf); tenths throughout
Tenths(x) == IF x.t = "int" THEN x.v * 10 ELSE x.v
PyGt(x, y) ==
    IF x.t = "nan" \/ y.t = "nan" THEN FALSE
    ELSE IF x.t = "inf" THEN x.v = 1 /\ ~(y.t = "inf" /\ y.v = 1)
    ELSE IF y.t = "inf" THEN y.v = -1
    ELSE Tenths(x) > Tenths(y)
PyLt(x, y) == PyGt(y, x)
\* max(a, b) and min(a, b): the first argument unless the second beats it
PyMax(a, b) == IF PyGt(b, a) THEN b ELSE a
PyMin(a, b) == IF PyLt(b, a) THEN b ELSE a

\* float("...") and int("...") of the strings the replies carry
FloatOfStr(s) ==
    CASE s = "0.7" -> Ok(FloatV(7))
      [] s = "12.5" -> Ok(FloatV(125))
      [] s = "2" -> Ok(FloatV(20))
      [] s = "nan" -> Ok(NaN)
      [] OTHER -> Raise
IntOfStr(s) ==
    CASE s = "2" -> Ok(IntV(2))
      [] OTHER -> Raise

\* float(x)
PyFloat(x) ==
    CASE x.t = "float" -> Ok(x)
      [] x.t = "nan" -> Ok(x)
      [] x.t = "inf" -> Ok(x)
      [] x.t = "int" -> Ok(FloatV(x.v * 10))
      [] x.t = "bool" -> Ok(FloatV(IF x.v THEN 10 ELSE 0))
      [] x.t = "str" -> FloatOfStr(x.v)
      [] OTHER -> Raise

\* int(x): truncation towards zero for a float
Trunc(n) == IF n >= 0 THEN n \div 10 ELSE -((-n) \div 10)
PyInt(x) ==
    CASE x.t = "int" -> Ok(x)
      [] x.t = "float" -> Ok(IntV(Trunc(x.v)))
      [] x.t = "bool" -> Ok(IntV(IF x.v THEN 1 ELSE 0))
      [] x.t = "str" -> IntOfStr(x.v)
      [] OTHER -> Raise

\* str(x); a container prints as its repr, held here as one token per kind
FloatRepr(n) ==
    IF n >= 0 THEN ToString(n \div 10) \o "." \o ToString(n % 10)
    ELSE "-" \o ToString((-n) \div 10) \o "." \o ToString((-n) % 10)
PyStr(x) ==
    CASE x.t = "str" -> x.v
      [] x.t = "null" -> "None"
      [] x.t = "bool" -> IF x.v THEN "True" ELSE "False"
      [] x.t = "int" -> ToString(x.v)
      [] x.t = "float" -> FloatRepr(x.v)
      [] x.t = "nan" -> "nan"
      [] x.t = "inf" -> IF x.v = 1 THEN "inf" ELSE "-inf"
      [] x.t = "list" -> "[...]"
      [] OTHER -> "{...}"

\* key in data
PyIn(key, data) ==
    CASE data.t = "obj" -> Ok(key \in DOMAIN data.v)
      [] data.t = "list" ->
            Ok(\E i \in 1..Len(data.v) : data.v[i].t = "str" /\ data.v[i].v = key)
      [] data.t = "str" -> Ok(data.v = key)
      [] OTHER -> Raise
\* data[key]
PyItem(data, key) ==
    IF data.t = "obj" /\ key \in DOMAIN data.v THEN Ok(data.v[key]) ELSE Raise
\* d.get(key, default)
PyGet(d, key, default) ==
    IF d.t # "obj" THEN Raise
    ELSE IF key \in DOMAIN d.v THEN Ok(d.v[key]) ELSE Ok(default)

(***************************************************************************)
(* datetime.strptime(date_str, '%Y-%m-%d')                                 *)
(***************************************************************************)
\* the characters of the strings a reply carries as a date; any other string
\* holds a character no date has
Chars(s) ==
    CASE s = "2024-01-13" -> <<"2", "0", "2", "4", "-", "0", "1", "-", "1", "3">>
      [] s = "2024-03-05" -> <<"2", "0", "2", "4", "-", "0", "3", "-", "0", "5">>
      [] s = "2024-1-5" -> <<"2", "0", "2", "4", "-", "1", "-", "5">>
      [] s = "2024-01-05" -> <<"2", "0", "2", "4", "-", "0", "1", "-", "0", "5">>
      [] s = "2024-06-01" -> <<"2", "0", "2", "4", "-", "0", "6", "-", "0", "1">>
      [] s = "2024-02-30" -> <<"2", "0", "2", "4", "-", "0", "2", "-", "3", "0">>
      [] s = "2024-13-01" -> <<"2", "0", "2", "4", "-", "1", "3", "-", "0", "1">>
      [] s = "13/01/2024" -> <<"1", "3", "/", "0", "1", "/", "2", "0", "2", "4">>
      [] s = "" -> <<>>
      [] OTHER -> <<"?">>
Digits == <<"0", "1", "2", "3", "4", "5", "6", "7", "8", "9">>
IsDigit(c) == \E i \in 1..10 : Digits[i] = c
DigitVal(c) == (CHOOSE i \in 1..10 : Digits[i] = c) - 1
RECURSIVE NumVal(_)
NumVal(q) ==
    IF q = <<>> THEN 0
    ELSE NumVal(SubSeq(q, 1, Len(q) - 1)) * 10 + DigitVal(q[Len(q)])
AllDigits(q) == \A i \in 1..Len(q) : IsDigit(q[i])
\* %m is 1[0-2]|0[1-9]|[1-9] and %d is 3[01]|[12]\d|0[1-9]|[1-9]| [1-9]
MonthToken(q) ==
    /\ Len(q) \in 1..2 /\ AllDigits(q)
    /\ NumVal(q) \in 1..12
DayToken(q) ==
    \/ Len(q) \in 1..2 /\ AllDigits(q) /\ NumVal(q) \in 1..31
    \/ Len(q) = 2 /\ q[1] = " " /\ IsDigit(q[2]) /\ NumVal(<<q[2]>>) \in 1..9
DayNum(q) == IF q[1] = " " THEN NumVal(<<q[2]>>) ELSE NumVal(q)
IsLeap(y) == (y % 4 = 0 /\ y % 100 # 0) \/ y % 400 = 0
DaysIn(y, m) ==
    IF m = 2 THEN (IF IsLeap(y) THEN 29 ELSE 28)
    ELSE IF m \in {4, 6, 9, 11} THEN 30 ELSE 31
NoDate == [ok |-> FALSE, y |-> 0, m |-> 0, d |-> 0]
\* the whole string must match %Y-%m-%d and name a day of the calendar;
\* every failure is a ValueError
Strptime(s) ==
    LET c == Chars(s)
        rest == SubSeq(c, 6, Len(c))
        cuts == {k \in 1..2 :
                    /\ Len(rest) >= k + 2
                    /\ rest[k + 1] = "-"
                    /\ MonthToken(SubSeq(rest, 1, k))
                    /\ DayToken(SubSeq(rest, k + 2, Len(rest)))}
    IN  IF Len(c) < 8 \/ ~AllDigits(SubSeq(c, 1, 4)) \/ c[5] # "-" \/ cuts = {}
        THEN NoDate
        ELSE LET k == CHOOSE k \in cuts : TRUE
                 y == NumVal(SubSeq(c, 1, 4))
                 m == NumVal(SubSeq(rest, 1, k))
                 d == DayNum(SubSeq(rest, k + 2, Len(rest)))
             IN  IF y < 1 \/ d > DaysIn(y, m) THEN NoDate
                 ELSE [ok |-> TRUE, y |-> y, m |-> m, d |-> d]

(***************************************************************************)
(* GroqClient._validate_response                                           *)
(***************************************************************************)
valid_categories ==
    {"Meals", "Travel", "Office", "Software", "Rent", "Utilities", "Other"}

\* the dictionary the validator starts from, and _error_response returns
DefaultExtraction(desc) ==
    [amount |-> [value |-> FloatV(0), confidence |-> IntV(0)],
     merchant |-> [value |-> "", confidence |-> IntV(0)],
     date |-> [value |-> "", confidence |-> IntV(0)],
     category |-> [value |-> "Other", confidence |-> IntV(0)],
     description |-> desc,
     line_items |-> <<>>]
\* an error response that drops its argument
ErrorResponseNoText(description) == DefaultExtraction("")
_error_response(description) == DefaultExtraction(description)

\* a clamp that forgets the upper bound
ClampNoUpper(x) ==
    LET f == PyFloat(x)
    IN  IF f.ok THEN Ok(PyMax(IntV(0), f.val)) ELSE Raise
\* min(1.0, max(0, float(x)))
ClampConfidence(x) ==
    LET f == PyFloat(x)
    IN  IF f.ok THEN Ok(PyMin(FloatV(10), PyMax(IntV(0), f.val))) ELSE Raise

\* {"value": conv(field.get('value', dv)), "confidence": clamp(field.get('confidence', 0))}
\* for data[key]; evaluation order: the value first, then the confidence
Field(data, key) == PyItem(data, key).val

\* an exception handler that starts over from the defaults
RaisedReset(s) == [raised |-> TRUE, v |-> DefaultExtraction(s.v.description)]
\* one validation step: s is [raised, v]; a step that raises leaves v as it is
Raised(s) == [raised |-> TRUE, v |-> s.v]
Present(data, key, s) ==
    IF s.raised THEN "skip"
    ELSE LET p == PyIn(key, data)
         IN  IF ~p.ok THEN "raise" ELSE IF p.val THEN "yes" ELSE "no"

ValidateAmount(data, s) ==
    LET p == Present(data, "amount", s)
        val == PyGet(Field(data, "amount"), "value", IntV(0))
        fv == PyFloat(val.val)
        cf == PyGet(Field(data, "amount"), "confidence", IntV(0))
        cc == ClampConfidence(cf.val)
    IN  IF p \in {"skip", "no"} THEN s
        ELSE IF p = "raise" \/ ~PyItem(data, "amount").ok THEN Raised(s)
        ELSE IF ~val.ok \/ ~fv.ok \/ ~cc.ok THEN Raised(s)
        ELSE [s EXCEPT !.v.amount = [value |-> fv.val, confidence |-> cc.val]]

ValidateMerchant(data, s) ==
    LET p == Present(data, "merchant", s)
        val == PyGet(Field(data, "merchant"), "value", Str(""))
        cf == PyGet(Field(data, "merchant"), "confidence", IntV(0))
        cc == ClampConfidence(cf.val)
    IN  IF p \in {"skip", "no"} THEN s
        ELSE IF p = "raise" \/ ~PyItem(data, "merchant").ok THEN Raised(s)
        ELSE IF ~val.ok \/ ~cc.ok THEN Raised(s)
        ELSE [s EXCEPT !.v.merchant =
                           [value |-> PyStr(val.val), confidence |-> cc.val]]

\* the inner try: a ValueError of strptime (or of float) is passed over and
\* leaves the date at its default; any other exception reaches the outer handler
ValidateDate(data, s) ==
    LET p == Present(data, "date", s)
        val == PyGet(Field(data, "date"), "value", Str(""))
        date_str == PyStr(val.val)
        cf == PyGet(Field(data, "date"), "confidence", IntV(0))
        fl == PyFloat(cf.val)
        cc == ClampConfidence(cf.val)
    IN  IF p \in {"skip", "no"} THEN s
        ELSE IF p = "raise" \/ ~PyItem(data, "date").ok THEN Raised(s)
        ELSE IF ~val.ok THEN Raised(s)
        ELSE IF ~Strptime(date_str).ok THEN s
        ELSE IF ~cc.ok
             THEN (IF cf.val.t = "str" THEN s ELSE Raised(s))
        ELSE [s EXCEPT !.v.date = [value |-> date_str, confidence |-> cc.val]]

ValidateCategory(data, s) ==
    LET p == Present(data, "category", s)
        val == PyGet(Field(data, "category"), "value", Str("Other"))
        cat == PyStr(val.val)
        cf == PyGet(Field(data, "category"), "confidence", IntV(0))
        cc == ClampConfidence(cf.val)
    IN  IF p \in {"skip", "no"} THEN s
        ELSE IF p = "raise" \/ ~PyItem(data, "category").ok THEN Raised(s)
        ELSE IF ~val.ok \/ ~cc.ok THEN Raised(s)
        ELSE [s EXCEPT !.v.category =
                 [value |-> IF cat \in valid_categories THEN cat ELSE "Other",
                  confidence |-> cc.val]]

\* one element of the list comprehension
CoerceItem(item) ==
    LET ds == PyGet(item, "description", Str(""))
        am == PyGet(item, "amount", IntV(0))
        fa == PyFloat(am.val)
        qt == PyGet(item, "quantity", IntV(1))
        iq == PyInt(qt.val)
    IN  IF ~ds.ok \/ ~fa.ok \/ ~iq.ok THEN Raise
        ELSE Ok([description |-> PyStr(ds.val), amount |-> fa.val,
                 quantity |-> iq.val.v])

\* the comprehension builds the whole list or raises
ValidateLineItems(data, s) ==
    LET p == Present(data, "line_items", s)
        li == Field(data, "line_items")
    IN  IF p \in {"skip", "no"} THEN s
        ELSE IF p = "raise" \/ ~PyItem(data, "line_items").ok THEN Raised(s)
        ELSE IF li.t # "list" THEN s
        ELSE IF \E i \in 1..Len(li.v) : ~CoerceItem(li.v[i]).ok THEN Raised(s)
        ELSE [s EXCEPT !.v.line_items =
                           [i \in 1..Len(li.v) |-> CoerceItem(li.v[i]).val]]

\* the try block, field after field; both exits return validated
ValidationRun(data, original_desc) ==
    ValidateLineItems(data,
      ValidateCategory(data,
        ValidateDate(data,
          ValidateMerchant(data,
            ValidateAmount(data,
              [raised |-> FALSE, v |-> DefaultExtraction(original_desc)])))))
_validate_response(data, original_desc) == ValidationRun(data, original_desc).v

(***************************************************************************)
(* GroqClient.process_receipt                                              *)
(***************************************************************************)
PdfFailure == "Failed to extract text from PDF"
ImageTypes == {"jpg", "jpeg", "png"}

\* file is [bytes, type]: bytes is "none" (None), "empty" (b"") or "data";
\* ext is what the text extraction of the file gives ("" when it fails);
\* llm is "error" (the API call raises), "badjson" (json.loads raises) or
\* "json" (the reply decodes to data)
process_receipt(file, txt, ext, llm, data) ==
    LET useFile == file.bytes = "data" /\ file.type \notin {"none", ""}
        extracted_text ==
            IF useFile /\ file.type \in {"pdf", "txt"} \cup ImageTypes
            THEN ext ELSE txt
    IN  IF useFile /\ file.type = "pdf" /\ extracted_text = ""
        THEN [result |-> _error_response(PdfFailure), failed |-> "pdf",
              t |-> extracted_text]
        ELSE IF llm # "json"
        THEN [result |-> _error_response(extracted_text), failed |-> llm,
              t |-> extracted_text]
        ELSE [result |-> _validate_response(data, extracted_text),
              failed |-> "none", t |-> extracted_text]

(***************************************************************************)
(* The replies, texts and files the validator and the extractor are run on *)
(***************************************************************************)
MaxItems == 2

Pair(val, conf) == Obj("value" :> val @@ "confidence" :> conf)
AmountSamples ==
    {Pair(FloatV(125), FloatV(9)),
     Pair(Str("12.5"), FloatV(-2)),
     Pair(Str("abc"), FloatV(5))}
MerchantSamples ==
    {Pair(Str("Starbucks"), FloatV(8)),
     Pair(IntV(42), NaN),
     Null}
DateSamples ==
    {Pair(Str("2024-01-13"), FloatV(9)),
     Pair(Str("13/01/2024"), FloatV(9)),
     Pair(Str("2024-1-5"), Str("0.7")),
     Pair(Str("2024-02-30"), Str("high")),
     Str("2024-01-13")}
CategorySamples ==
    {Pair(Str("Meals"), FloatV(9)),
     Pair(Str("Cafe"), FloatV(9)),
     Pair(Str("Cafe"), FloatV(15)),
     Obj("value" :> Str("Travel")),
     Pair(Str("Meals"), Null)}
ItemSamples ==
    {Obj("description" :> Str("Latte") @@ "amount" :> FloatV(45)
             @@ "quantity" :> IntV(2)),
     Obj("description" :> Str("Tip") @@ "amount" :> IntV(1)
             @@ "quantity" :> IntV(0)),
     Obj("amount" :> Str("12.5") @@ "quantity" :> FloatV(-15)),
     Obj("description" :> Str("Bagel") @@ "amount" :> Str("abc"))}
ItemLists == UNION {[1..n -> ItemSamples] : n \in 0..MaxItems}
LineItemsSamples == {List(q) : q \in ItemLists} \cup {Str("none")}

Absent == [t |-> "absent", v |-> 0]
Opt(S) == S \cup {Absent}
\* the object with the fields that are not Absent
MakeReply(a, m, d, c, l) ==
    LET all == "amount" :> a @@ "merchant" :> m @@ "date" :> d
                   @@ "category" :> c @@ "line_items" :> l
        keys == {k \in DOMAIN all : all[k] # Absent}
    IN  Obj([k \in keys |-> all[k]])
ObjectReplies ==
    {MakeReply(a, m, d, c, l) :
        a \in Opt(AmountSamples), m \in Opt(MerchantSamples),
        d \in Opt(DateSamples), c \in Opt(CategorySamples),
        l \in Opt(LineItemsSamples)}
NonObjectReplies == {Null, IntV(5), Str("amount"), List(<<Str("amount")>>)}
Replies == ObjectReplies \cup NonObjectReplies
\* the extractor is run on the replies that carry no line_items
ProcessReplies ==
    {r \in Replies : r.t # "obj" \/ "line_items" \notin DOMAIN r.v}

Texts == {"LATTE 4.50"}
Files ==
    {[bytes |-> "none", type |-> "none"], [bytes |-> "empty", type |-> "pdf"]}
    \cup [bytes : {"data"}, type : {"pdf", "png", "txt", "csv"}]
Extractions == {"", "TOTAL 12.50"}
LlmOutcomes == {"error", "badjson", "json"}

NoCall == [op |-> "none", failed |-> "none", t |-> "", raised |-> FALSE]

(***************************************************************************)
(* The transaction store: utils/snowflake_conn.py                          *)
(***************************************************************************)
\* the columns of table transactions as init_db creates it
TableColumns ==
    {"id", "date", "merchant", "merchant_confidence", "description", "amount",
     "amount_confidence", "category", "category_confidence",
     "date_confidence", "is_reconciled"}
\* the columns the UPDATE of update_transaction_category assigns
UpdateColumns == {"category", "category_confidence", "last_updated"}

\* a timestamp is [y, m, d, tod]; tod is 0 at midnight
Timestamp(y, m, d, tod) == [y |-> y, m |-> m, d |-> d, tod |-> tod]
DateTime(ts) == [t |-> "datetime", v |-> ts]
\* datetime.utcnow()
UtcNow == DateTime(Timestamp(2024, 6, 1, 1))
TsKey(ts) == ((ts.y * 12 + ts.m) * 31 + ts.d) * 2 + ts.tod
\* what column date TIMESTAMP_NTZ makes of the bound value: a datetime as it
\* is, a string read as a date at midnight; a string that is no date makes
\* the statement fail
ToTimestamp(x) ==
    IF x.t = "datetime" THEN Ok(x.v)
    ELSE IF x.t = "str" /\ Strptime(x.v).ok
    THEN LET p == Strptime(x.v) IN Ok(Timestamp(p.y, p.m, p.d, 0))
    ELSE Raise

\* bool(x)
PyBool(x) ==
    CASE x.t = "bool" -> x.v
      [] x.t = "str" -> x.v # ""
      [] x.t \in {"int", "float"} -> x.v # 0
      [] x.t \in {"nan", "inf"} -> TRUE
      [] x.t = "null" -> FALSE
      [] OTHER -> TRUE

\* transaction_data.get(key, default) of a dictionary held as a function
TdGet(td, key, default) == IF key \in DOMAIN td THEN td[key] ELSE default

\* str(uuid.uuid4()): the n-th identifier handed out; no two are equal
Uuid4(n) == "uuid-" \o ToString(n)

\* an id generated once and used for every transaction
TransactionIdShared(td, n) ==
    IF "id" \in DOMAIN td THEN td.id.v ELSE Uuid4(1)
\* lines 82-83: the id of the transaction, generated when it carries none
TransactionId(td, n) ==
    IF "id" \in DOMAIN td THEN td.id.v ELSE Uuid4(n + 1)

\* the tuple bound to the INSERT; a float() that raises ends the call
InsertValues(td, id) ==
    LET mc == PyFloat(TdGet(td, "merchant_confidence", FloatV(10)))
        am == PyFloat(TdGet(td, "amount", FloatV(0)))
        ac == PyFloat(TdGet(td, "amount_confidence", FloatV(10)))
        cc == PyFloat(TdGet(td, "category_confidence", FloatV(10)))
        dc == PyFloat(TdGet(td, "date_confidence", FloatV(10)))
        ts == ToTimestamp(TdGet(td, "date", UtcNow))
    IN  IF ~mc.ok \/ ~am.ok \/ ~ac.ok \/ ~cc.ok \/ ~dc.ok
        THEN [built |-> FALSE, accepted |-> FALSE, row |-> <<>>]
        ELSE [built |-> TRUE, accepted |-> ts.ok,
              row |-> [id |-> id,
                       date |-> ts.val,
                       merchant |-> TdGet(td, "merchant", Str("")).v,
                       merchant_confidence |-> mc.val,
                       description |-> TdGet(td, "description", Str("")).v,
                       amount |-> am.val,
                       amount_confidence |-> ac.val,
                       category |-> TdGet(td, "category", Str("Other")).v,
                       category_confidence |-> cc.val,
                       date_confidence |-> dc.val,
                       is_reconciled |->
                           PyBool(TdGet(td, "is_reconciled", Bool(FALSE)))]]

\* the except branch returning the id instead of re-raising
LogTransactionSwallows(td, rows, n, db) ==
    LET id == TransactionId(td, n)
        used == IF "id" \in DOMAIN td THEN n ELSE n + 1
        vals == InsertValues(td, id)
    IN  IF db /\ vals.built /\ vals.accepted
        THEN [rows |-> Append(rows, vals.row), uuids |-> used,
              returned |-> TRUE, id |-> id, stmt |-> "ok"]
        ELSE [rows |-> rows, uuids |-> used, returned |-> TRUE, id |-> id,
              stmt |-> IF vals.built THEN "failed" ELSE "none"]
\* log_transaction(transaction_data): db is TRUE when the connection and the
\* statement go through.  Gives the rows afterwards, the number of uuids used,
\* whether it returned (else it raised), the id, and what became of the
\* INSERT: "none" when a float() raised before it, "failed" or "ok"
log_transaction(td, rows, n, db) ==
    LET id == TransactionId(td, n)
        used == IF "id" \in DOMAIN td THEN n ELSE n + 1
        vals == InsertValues(td, id)
    IN  IF db /\ vals.built /\ vals.accepted
        THEN [rows |-> Append(rows, vals.row), uuids |-> used,
              returned |-> TRUE, id |-> id, stmt |-> "ok"]
        ELSE [rows |-> rows, uuids |-> used, returned |-> FALSE, id |-> id,
              stmt |-> IF vals.built THEN "failed" ELSE "none"]

\* update_transaction_category: the statement names a column the table does
\* not have unless UpdateColumns are all columns of the table; True is
\* returned whenever the statement ran, whether or not a row matched
update_transaction_category(transaction_id, new_category, confidence, rows, db) ==
    IF db /\ UpdateColumns \subseteq TableColumns
    THEN [rows |-> [i \in 1..Len(rows) |->
                       IF rows[i].id = transaction_id
                       THEN [rows[i] EXCEPT !.category = new_category,
                                            !.category_confidence = confidence]
                       ELSE rows[i]],
          returned |-> TRUE, flag |-> TRUE, stmt |-> "ok"]
    ELSE [rows |-> rows, returned |-> TRUE, flag |-> FALSE, stmt |-> "failed"]

\* bulk_upload_transactions(df): write_pandas appends the frame as it is
bulk_upload_transactions(df, rows, db) ==
    IF db THEN [rows |-> rows \o df, nrows |-> Len(df)]
    ELSE [rows |-> rows, nrows |-> 0]

\* the orders in which ORDER BY date DESC may return the rows: rows of equal
\* date come in any order
AscendingOrders(rows) ==
    {p \in [1..Len(rows) -> 1..Len(rows)] :
        /\ \A i, j \in 1..Len(rows) : i # j => p[i] # p[j]
        /\ \A i, j \in 1..Len(rows) :
              i < j => TsKey(rows[p[i]].date) <= TsKey(rows[p[j]].date)}
DescendingOrders(rows) ==
    {p \in [1..Len(rows) -> 1..Len(rows)] :
        /\ \A i, j \in 1..Len(rows) : i # j => p[i] # p[j]
        /\ \A i, j \in 1..Len(rows) :
              i < j => TsKey(rows[p[i]].date) >= TsKey(rows[p[j]].date)}
Min2(a, b) == IF a < b THEN a ELSE b
\* columns of get_transactions_as_dataframe
DataFrameColumns ==
    {"id", "date", "merchant", "merchant_confidence", "description", "amount",
     "amount_confidence", "category", "category_confidence",
     "date_confidence", "is_reconciled"}
\* pd.DataFrame(rows, columns=columns); raised marks a call that ended in an
\* exception instead of a frame
DataFrame(rows, columns) ==
    [raised |-> FALSE, columns |-> columns, rows |-> rows]
\* the except branch re-raising instead of returning the empty frame
ReadFailureRaises(limit, rows, db) ==
    IF ~db THEN {[raised |-> TRUE, columns |-> {}, rows |-> <<>>]}
    ELSE {DataFrame([i \in 1..Min2(limit, Len(rows)) |-> rows[p[i]]],
                    DataFrameColumns) :
             p \in DescendingOrders(rows)}
\* get_transactions_as_dataframe(limit): the frames the query may give; a
\* failed read gives the frame with the columns and no rows
get_transactions_as_dataframe(limit, rows, db) ==
    IF ~db THEN {DataFrame(<<>>, DataFrameColumns)}
    ELSE {DataFrame([i \in 1..Min2(limit, Len(rows)) |-> rows[p[i]]],
                    DataFrameColumns) :
             p \in DescendingOrders(rows)}

(***************************************************************************)
(* utils/snowflake_helpers.py                                              *)
(***************************************************************************)
\* IEEE 754 binary64, the arithmetic of the float64 columns.  A magnitude is
\* a natural number of units of 2^-FracBits, held as Limbs limbs of LimbBits
\* bits, lowest first; a double is [neg, mag].
LimbBits == 12
Base == 2 ^ LimbBits
Limbs == 12
FracBits == 64
GuardBits == 24
Mantissa == 53
NatZero == [i \in 1..Limbs |-> 0]
Limb(a, i) == IF i \in 1..Limbs THEN a[i] ELSE 0
\* n < Base * Base as a magnitude
NatOfInt(n) ==
    [i \in 1..Limbs |->
        IF i = 1 THEN n % Base ELSE IF i = 2 THEN n \div Base ELSE 0]
RECURSIVE CarryFrom(_, _, _)
CarryFrom(q, i, c) ==
    IF i > Limbs THEN <<>>
    ELSE LET t == q[i] + c
         IN  <<t % Base>> \o CarryFrom(q, i + 1, t \div Base)
NatAdd(a, b) == CarryFrom([i \in 1..Limbs |-> a[i] + b[i]], 1, 0)
\* a - b for a >= b
NatSub(a, b) == CarryFrom([i \in 1..Limbs |-> a[i] - b[i]], 1, 0)
RECURSIVE ConvSum(_, _, _, _)
ConvSum(a, b, k, i) ==
    IF i > k THEN 0 ELSE a[i] * b[k + 1 - i] + ConvSum(a, b, k, i + 1)
NatMul(a, b) == CarryFrom([k \in 1..Limbs |-> ConvSum(a, b, k, 1)], 1, 0)
RECURSIVE NatLessFrom(_, _, _)
NatLessFrom(a, b, i) ==
    IF i = 0 THEN FALSE
    ELSE IF a[i] # b[i] THEN a[i] < b[i]
    ELSE NatLessFrom(a, b, i - 1)
NatLess(a, b) == NatLessFrom(a, b, Limbs)
\* a divided by the small number d: quotient and remainder
RECURSIVE DivSmallFrom(_, _, _, _)
DivSmallFrom(a, d, i, rem) ==
    IF i = 0 THEN [q |-> <<>>, r |-> rem]
    ELSE LET cur == rem * Base + a[i]
             rest == DivSmallFrom(a, d, i - 1, cur % d)
         IN  [q |-> Append(rest.q, cur \div d), r |-> rest.r]
BitLen(a) ==
    LET nz == {i \in 1..Limbs : a[i] # 0}
    IN  IF nz = {} THEN 0
        ELSE LET h == CHOOSE i \in nz : \A j \in nz : j <= i
             IN  LimbBits * (h - 1)
                     + (CHOOSE k \in 1..LimbBits :
                            2 ^ (k - 1) <= a[h] /\ a[h] < 2 ^ k)
ShiftRight(a, s) ==
    LET q == s \div LimbBits
        r == s % LimbBits
    IN  [i \in 1..Limbs |->
            (Limb(a, i + q) \div 2 ^ r)
                + (Limb(a, i + q + 1) % 2 ^ r) * 2 ^ (LimbBits - r)]
ShiftLeft(a, s) ==
    LET q == s \div LimbBits
        r == s % LimbBits
    IN  [i \in 1..Limbs |->
            ((Limb(a, i - q) * 2 ^ r) % Base)
                + (Limb(a, i - q - 1) \div 2 ^ (LimbBits - r))]
Bit(a, k) == (Limb(a, k \div LimbBits + 1) \div 2 ^ (k % LimbBits)) % 2
\* a rounded to Mantissa significant bits, to nearest, ties to even; sticky
\* tells that a was cut off from something larger
RoundNearestEven(a, sticky) ==
    LET len == BitLen(a)
        s == len - Mantissa
        q == ShiftRight(a, s)
        low == sticky \/ ShiftLeft(ShiftRight(a, s - 1), s - 1) # a
        up == Bit(a, s - 1) = 1 /\ (low \/ Bit(q, 0) = 1)
    IN  IF len <= Mantissa THEN a
        ELSE ShiftLeft(IF up THEN NatAdd(q, NatOfInt(1)) ELSE q, s)
\* x * y and x + y of two doubles
FloatMul(x, y) ==
    [neg |-> x.neg # y.neg,
     mag |-> ShiftRight(RoundNearestEven(NatMul(x.mag, y.mag), FALSE),
                        FracBits)]
FloatAdd(x, y) ==
    IF x.neg = y.neg
    THEN [neg |-> x.neg, mag |-> RoundNearestEven(NatAdd(x.mag, y.mag), FALSE)]
    ELSE IF NatLess(x.mag, y.mag)
    THEN [neg |-> y.neg, mag |-> RoundNearestEven(NatSub(y.mag, x.mag), FALSE)]
    ELSE [neg |-> x.neg /\ x.mag # y.mag,
          mag |-> RoundNearestEven(NatSub(x.mag, y.mag), FALSE)]
FloatLess(x, y) ==
    IF x.neg # y.neg THEN x.neg /\ (x.mag # NatZero \/ y.mag # NatZero)
    ELSE IF x.neg THEN NatLess(y.mag, x.mag) ELSE NatLess(x.mag, y.mag)
\* the double nearest to k tenths: what the literal or the stored FLOAT is
DoubleOfTenths(k) ==
    LET n == IF k < 0 THEN -k ELSE k
        d == DivSmallFrom(ShiftLeft(NatOfInt(n), FracBits + GuardBits), 10,
                          Limbs, 0)
    IN  [neg |-> k < 0,
         mag |-> ShiftRight(RoundNearestEven(d.q, d.r # 0), GuardBits)]
\* the doubles of the tenths the model holds, and their products with the
\* doubles of 0.1 .. 0.4, computed once
TenthsRange == -20..20
DoubleTable == [k \in TenthsRange |-> DoubleOfTenths(k)]
WeightedTable ==
    [w \in 1..4 |->
        [k \in TenthsRange |-> FloatMul(DoubleTable[k], DoubleTable[w])]]
\* the double a finite Python number of the model stands for
Double(x) == DoubleTable[Tenths(x)]
\* the tenths that the amount, category, merchant and date confidence of the
\* transactions of the model take
AmountConfidences == {-2, 0, 9, 10, 12}
CategoryConfidences == {0, 7, 10, 15}
MerchantConfidences == {0, 8, 10}
DateConfidences == {0, 6, 9, 10}
\* lines 19-24: the products and sums of doubles in the order of the
\* expression, for amount, category, merchant and date confidence of a, c, m
\* and d tenths; computed once
ScoreTable ==
    [a \in AmountConfidences, c \in CategoryConfidences,
     m \in MerchantConfidences, d \in DateConfidences |->
        FloatAdd(
            FloatAdd(
                FloatAdd(WeightedTable[4][a], WeightedTable[3][c]),
                WeightedTable[2][m]),
            WeightedTable[1][d])]
\* quality_score of a row
QualityScore(r) ==
    ScoreTable[Tenths(r.amount_confidence), Tenths(r.category_confidence),
               Tenths(r.merchant_confidence), Tenths(r.date_confidence)]
WithScore(r) ==
    [k \in DOMAIN r \cup {"quality_score"} |->
        IF k = "quality_score" THEN QualityScore(r) ELSE r[k]]
\* get_recent_transactions(limit): the score is added unless the frame is
\* empty
get_recent_transactions(limit, rows, db) ==
    {IF df.raised \/ df.rows = <<>> THEN df
     ELSE DataFrame([i \in 1..Len(df.rows) |-> WithScore(df.rows[i])],
                    df.columns \cup {"quality_score"}) :
        df \in get_transactions_as_dataframe(limit, rows, db)}

\* limit: int = 100
DefaultLimit == 100
\* a filter that also looks at date_confidence
LowWithDate(r, threshold) ==
    \/ PyLt(r.amount_confidence, threshold)
    \/ PyLt(r.category_confidence, threshold)
    \/ PyLt(r.merchant_confidence, threshold)
    \/ PyLt(r.date_confidence, threshold)
\* lines 75-79: the mask of get_questionable_transactions
Low(r, threshold) ==
    \/ PyLt(r.amount_confidence, threshold)
    \/ PyLt(r.category_confidence, threshold)
    \/ PyLt(r.merchant_confidence, threshold)
\* the orders sort_values('amount_confidence') may give: ascending, rows of
\* equal amount_confidence in any order
SortedOrders(rows) ==
    {p \in [1..Len(rows) -> 1..Len(rows)] :
        /\ \A i, j \in 1..Len(rows) : i # j => p[i] # p[j]
        /\ \A i, j \in 1..Len(rows) :
              i < j => ~PyLt(rows[p[j]].amount_confidence,
                            rows[p[i]].amount_confidence)}
\* get_questionable_transactions(threshold): pd.DataFrame() for an empty
\* listing, else the rows under the mask, sorted
get_questionable_transactions(threshold, rows, db) ==
    UNION {IF df.rows = <<>> THEN {DataFrame(<<>>, {})}
           ELSE LET sub == SelectSeq(df.rows, LAMBDA r : Low(r, threshold))
                IN  {DataFrame([i \in 1..Len(sub) |-> sub[p[i]]], df.columns) :
                        p \in SortedOrders(sub)} :
              df \in get_recent_transactions(DefaultLimit, rows, db)}

\* receipt_data.get(field, {}).get(key, default) of an extraction
RdGet(rd, field, key, default) ==
    IF field \in DOMAIN rd /\ key \in DOMAIN rd[field]
    THEN rd[field][key] ELSE default
\* the dictionary log_receipt_transaction hands to log_transaction; each
\* confidence and the amount go through float()
ReceiptTransaction(rd) ==
    [merchant |-> Str(RdGet(rd, "merchant", "value", "")),
     merchant_confidence |->
         PyFloat(RdGet(rd, "merchant", "confidence", FloatV(10))),
     description |-> Str(TdGet(rd, "description", "")),
     amount |-> PyFloat(RdGet(rd, "amount", "value", FloatV(0))),
     amount_confidence |->
         PyFloat(RdGet(rd, "amount", "confidence", FloatV(10))),
     category |-> Str(RdGet(rd, "category", "value", "Other")),
     category_confidence |->
         PyFloat(RdGet(rd, "category", "confidence", FloatV(10))),
     date |-> IF "date" \in DOMAIN rd /\ "value" \in DOMAIN rd.date
              THEN Str(rd.date.value) ELSE UtcNow,
     date_confidence |->
         PyFloat(RdGet(rd, "date", "confidence", FloatV(10)))]
FloatKeys ==
    {"merchant_confidence", "amount", "amount_confidence",
     "category_confidence", "date_confidence"}
\* the dictionary once every float() has returned
Coerced(tr) ==
    [k \in DOMAIN tr |-> IF k \in FloatKeys THEN tr[k].val ELSE tr[k]]
\* an insert helper that swallows the failure and returns no id
LogReceiptSwallows(rd, rows, n, db) ==
    LET tr == ReceiptTransaction(rd)
        r == IF \E k \in FloatKeys : ~tr[k].ok
             THEN [rows |-> rows, uuids |-> n, returned |-> FALSE, id |-> "",
                   stmt |-> "none"]
             ELSE log_transaction(Coerced(tr), rows, n, db)
    IN  [r EXCEPT !.returned = TRUE]
\* log_receipt_transaction(receipt_data): a float() that raises is re-raised
\* before log_transaction is called
log_receipt_transaction(rd, rows, n, db) ==
    LET tr == ReceiptTransaction(rd)
    IN  IF \E k \in FloatKeys : ~tr[k].ok
        THEN [rows |-> rows, uuids |-> n, returned |-> FALSE, id |-> "",
              stmt |-> "none"]
        ELSE log_transaction(Coerced(tr), rows, n, db)

\* update_category_interactive: a category outside the list raises
update_category_interactive(transaction_id, new_category, confidence, rows, db) ==
    IF new_category \notin valid_categories
    THEN [rows |-> rows, returned |-> FALSE, flag |-> FALSE, stmt |-> "none"]
    ELSE update_transaction_category(transaction_id, new_category,
                                     confidence, rows, db)

(***************************************************************************)
(* The store's state while the validator is exercised                      *)
(***************************************************************************)
NoOp == [op |-> "none"]
\* app.py lines 30-31, before any interaction
NoInteraction == [op |-> "none", page |-> {}]
SessionInit ==
    /\ session = ("form_submitted" :> FALSE)
    /\ ui = NoInteraction
    /\ held = [serial |-> 0, inserts |-> <<>>]
StoreInit ==
    /\ store = <<>>
    /\ uuidCount = 0
    /\ last = NoOp
    /\ saved = <<>>
    /\ autoOnly = TRUE
    /\ SessionInit

InitV ==
    /\ reply \in Replies
    /\ text \in Texts
    /\ vout = DefaultExtraction("")
    /\ vcall = NoCall
    /\ StoreInit

\* a call of _validate_response(reply, text)
Validate ==
    /\ vcall.op = "none"
    /\ vout' = _validate_response(reply, text)
    /\ vcall' = [op |-> "validate", failed |-> "none", t |-> text,
                 raised |-> ValidationRun(reply, text).raised]
    /\ UNCHANGED <<reply, text, svars, uvars>>

\* a call of process_receipt(file_bytes, text, file_type)
ProcessReceipt ==
    /\ vcall.op = "none"
    /\ reply \in ProcessReplies
    /\ \E file \in Files, ext \in Extractions, llm \in LlmOutcomes :
          LET r == process_receipt(file, text, ext, llm, reply)
          IN  /\ vout' = r.result
              /\ vcall' = [op |-> "process", failed |-> r.failed, t |-> r.t,
                           raised |-> FALSE]
    /\ UNCHANGED <<reply, text, svars, uvars>>

NextV == Validate \/ ProcessReceipt
SpecV == InitV /\ [][NextV]_vars

(***************************************************************************)
(* Properties of the validator and the extractor (SpecV)                   *)
(***************************************************************************)
Validated == vcall.op = "validate"
IsNumber(x) == x.t \in {"int", "float"}
InUnit(c) == IsNumber(c) /\ Tenths(c) >= 0 /\ Tenths(c) <= 10
\* clamp(c, 0, 1) in tenths
ClampTenths(c) ==
    IF Tenths(c) < 0 THEN 0 ELSE IF Tenths(c) > 10 THEN 10 ELSE Tenths(c)
HasField(data, key) == data.t = "obj" /\ key \in DOMAIN data.v
HasObject(data, key) == HasField(data, key) /\ data.v[key].t = "obj"
TopFields == {"amount", "merchant", "date", "category"}
\* what a field validated on its own comes to
Fresh == [raised |-> FALSE, v |-> DefaultExtraction(text)]
FieldAlone(data, key) ==
    CASE key = "amount" -> ValidateAmount(data, Fresh)
      [] key = "merchant" -> ValidateMerchant(data, Fresh)
      [] key = "date" -> ValidateDate(data, Fresh)
      [] key = "category" -> ValidateCategory(data, Fresh)
      [] OTHER -> ValidateLineItems(data, Fresh)

\* C1: whatever the reply, the validated extraction has all six keys, every
\* confidence in [0,1] and a category of the closed enum
C1_WellFormed ==
    Validated =>
        /\ DOMAIN vout = {"amount", "merchant", "date", "category",
                          "description", "line_items"}
        /\ \A f \in TopFields : InUnit(vout[f].confidence)
        /\ vout.category.value \in valid_categories
C1_Witness ==
    /\ Validated
    /\ HasObject(reply, "category")
    /\ reply.v.category = Pair(Str("Cafe"), FloatV(15))
    /\ HasObject(reply, "amount")
    /\ reply.v.amount = Pair(Str("12.5"), FloatV(-2))
    /\ vout.category = [value |-> "Other", confidence |-> FloatV(10)]
    /\ vout.amount = [value |-> FloatV(125), confidence |-> IntV(0)]

\* C2 as claimed: when validation ends in the exception handler, the value
\* returned is the fully-default extraction with the original text
C2_ExceptionGivesDefault ==
    (Validated /\ vcall.raised) => vout = DefaultExtraction(vcall.t)
\* C2 as amended: the fields validated before the one that raised keep their
\* validated values; that field and the ones after it hold the defaults, and
\* description is the original text
FieldOrder == <<"amount", "merchant", "date", "category", "line_items">>
\* the position of the first field that raises on its own (0 when none does)
FirstRaising ==
    LET rf == {k \in 1..5 : FieldAlone(reply, FieldOrder[k]).raised}
    IN  IF rf = {} THEN 0 ELSE CHOOSE k \in rf : \A j \in rf : k <= j
C2_ExceptionKeepsEarlier ==
    (Validated /\ vcall.raised) =>
        LET first == FirstRaising
        IN  /\ first # 0
            /\ vout.description = vcall.t
            /\ \A k \in 1..5 :
                  vout[FieldOrder[k]] =
                      IF k < first
                      THEN FieldAlone(reply, FieldOrder[k]).v[FieldOrder[k]]
                      ELSE DefaultExtraction(vcall.t)[FieldOrder[k]]
C2_Witness ==
    /\ Validated /\ vcall.raised
    /\ FirstRaising = 2
    /\ vout.amount = [value |-> FloatV(125), confidence |-> FloatV(9)]
    /\ HasObject(reply, "category")
    /\ vout.category = [value |-> "Other", confidence |-> IntV(0)]

\* C4: a reply whose date.value does not parse gets the default date, and its
\* amount, merchant and category keep their coerced values
DateUnparseable(data) ==
    /\ HasObject(data, "date")
    /\ ~Strptime(PyStr(PyGet(data.v.date, "value", Str("")).val)).ok
C4_DateRejectedOthersKept ==
    (Validated /\ DateUnparseable(reply)) =>
        /\ vout.date = [value |-> "", confidence |-> IntV(0)]
        /\ \A f \in {"amount", "merchant", "category"} :
              (HasField(reply, f) /\ ~FieldAlone(reply, f).raised)
                  => vout[f] = FieldAlone(reply, f).v[f]
\* C4, as far as the code goes: the same, for the runs that do not end in the
\* exception handler
C4_DateRejectedNoRaise ==
    (Validated /\ DateUnparseable(reply)) =>
        /\ vout.date = [value |-> "", confidence |-> IntV(0)]
        /\ ~vcall.raised =>
              \A f \in {"amount", "merchant", "category"} :
                  HasField(reply, f) => vout[f] = FieldAlone(reply, f).v[f]

\* C5: an unknown category with a numeric confidence c becomes Other with
\* confidence clamp(c, 0, 1)
UnknownCategory(data) ==
    /\ HasObject(data, "category")
    /\ "confidence" \in DOMAIN data.v.category.v
    /\ IsNumber(data.v.category.v.confidence)
    /\ PyStr(PyGet(data.v.category, "value", Str("Other")).val)
           \notin valid_categories
C5_UnknownCategoryOther ==
    (Validated /\ UnknownCategory(reply)) =>
        /\ vout.category.value = "Other"
        /\ IsNumber(vout.category.confidence)
        /\ Tenths(vout.category.confidence)
               = ClampTenths(reply.v.category.v.confidence)
\* C5, as far as the code goes: the same, for the runs that reach the category
C5_UnknownCategoryReached ==
    (Validated /\ UnknownCategory(reply) /\ ~vcall.raised) =>
        /\ vout.category.value = "Other"
        /\ Tenths(vout.category.confidence)
               = ClampTenths(reply.v.category.v.confidence)

\* C6: a list-valued line_items gives one coerced item per input item, in
\* order, each coerced on its own; anything else gives the empty sequence
C6_ItemsIndependent ==
    Validated =>
        IF HasField(reply, "line_items") /\ reply.v.line_items.t = "list"
        THEN LET li == reply.v.line_items.v
             IN  /\ Len(vout.line_items) = Len(li)
                 /\ \A i \in 1..Len(li) :
                       CoerceItem(li[i]).ok
                           => vout.line_items[i] = CoerceItem(li[i]).val
        ELSE vout.line_items = <<>>

\* C7: every line item returned has a quantity of at least 1
C7_QuantityPositive ==
    vcall.op # "none" =>
        \A i \in 1..Len(vout.line_items) : vout.line_items[i].quantity >= 1

MaxRows == 2
MaxUuids == 2
MaxLimit == 2

Ids(rows) == {rows[i].id : i \in 1..Len(rows)}

NoKeys == [k \in {} |-> Null]
TxFull ==
    [merchant |-> Str("Starbucks"), merchant_confidence |-> FloatV(8),
     description |-> Str("LATTE 4.50"), amount |-> FloatV(125),
     amount_confidence |-> FloatV(9), category |-> Str("Meals"),
     category_confidence |-> FloatV(7), date |-> Str("2024-01-13"),
     date_confidence |-> FloatV(6), is_reconciled |-> Bool(TRUE)]
TxBad ==
    [merchant |-> Str("Kiosk"), amount |-> IntV(3),
     amount_confidence |-> FloatV(-2), category |-> Str("Cafe"),
     category_confidence |-> FloatV(15), date |-> Str("2024-03-05"),
     metadata |-> Str("{raw_data}")]
TxExplicit ==
    [id |-> Str("T-1"), merchant |-> Str("Depot"), amount |-> FloatV(990),
     category |-> Str("Office"), date |-> Str("2024-01-13"),
     merchant_confidence |-> IntV(0), amount_confidence |-> IntV(0),
     category_confidence |-> IntV(0), date_confidence |-> IntV(0)]
TxNoFloat == [merchant |-> Str("Kiosk"), merchant_confidence |-> Null]
TxSamples == {NoKeys, TxFull, TxBad, TxExplicit, TxNoFloat}
\* a transaction handed in under an id the store already holds
TxAgain(rows) == {[id |-> Str(i), merchant |-> Str("Again")] : i \in Ids(rows)}

\* what the validator makes of a reply with an unknown category, and of the
\* empty reply (no date)
ReceiptSamples ==
    {_validate_response(
         MakeReply(Pair(FloatV(45), FloatV(9)), Pair(Str("Starbucks"), FloatV(8)),
                   Pair(Str("2024-03-05"), FloatV(9)),
                   Pair(Str("Cafe"), FloatV(15)), Absent),
         "LATTE 4.50"),
     _validate_response(EmptyObj, "LATTE 4.50")}

BulkRow ==
    [id |-> "B-1", date |-> Timestamp(2024, 1, 13, 0), merchant |-> "Import",
     merchant_confidence |-> FloatV(10), description |-> "",
     amount |-> FloatV(70), amount_confidence |-> FloatV(12),
     category |-> "Groceries", category_confidence |-> FloatV(10),
     date_confidence |-> FloatV(10), is_reconciled |-> FALSE]
BulkFrames == {<<BulkRow>>}

Init ==
    /\ reply = EmptyObj
    /\ text = "LATTE 4.50"
    /\ vout = DefaultExtraction("")
    /\ vcall = NoCall
    /\ StoreInit

LogResult(op, td, r) ==
    /\ store' = r.rows
    /\ uuidCount' = r.uuids
    /\ last' = [op |-> op, explicit |-> "id" \in DOMAIN td, ok |-> r.returned,
                id |-> r.id, idsBefore |-> Ids(store), stmt |-> r.stmt,
                rowsBefore |-> store]
    /\ saved' = IF r.returned THEN <<[id |-> r.id, td |-> td]>> ELSE <<>>
    /\ autoOnly' = (autoOnly /\ "id" \notin DOMAIN td)

LogTransaction ==
    /\ Len(store) < MaxRows
    /\ uuidCount < MaxUuids
    /\ \E td \in TxSamples \cup TxAgain(store), db \in BOOLEAN :
          LogResult("log_transaction", td,
                    log_transaction(td, store, uuidCount, db))
    /\ UNCHANGED <<vvars, uvars>>

LogReceipt ==
    /\ Len(store) < MaxRows
    /\ uuidCount < MaxUuids
    /\ \E rd \in ReceiptSamples, db \in BOOLEAN :
          LogResult("log_receipt", Coerced(ReceiptTransaction(rd)),
                    log_receipt_transaction(rd, store, uuidCount, db))
    /\ UNCHANGED <<vvars, uvars>>

UpdateCategory ==
    /\ \E id \in Ids(store) \cup {"missing"}, cat \in {"Travel", "Cafe"},
          conf \in {FloatV(5)}, db \in BOOLEAN :
          LET r == update_category_interactive(id, cat, conf, store, db)
          IN  /\ store' = r.rows
              /\ last' = [op |-> "update_category", ok |-> r.returned,
                          flag |-> r.flag, id |-> id, category |-> cat,
                          confidence |-> conf, db |-> db, stmt |-> r.stmt,
                          rowsBefore |-> store]
    /\ saved' = <<>>
    /\ UNCHANGED <<uuidCount, autoOnly, vvars, uvars>>

BulkUpload ==
    /\ \E df \in BulkFrames, db \in BOOLEAN :
          /\ Len(store) + Len(df) <= MaxRows
          /\ LET r == bulk_upload_transactions(df, store, db)
             IN  /\ store' = r.rows
                 /\ last' = [op |-> "bulk_upload", nrows |-> r.nrows]
    /\ saved' = <<>>
    /\ autoOnly' = FALSE
    /\ UNCHANGED <<uuidCount, vvars, uvars>>

\* get_recent_transactions(limit)
ListRecent ==
    /\ \E limit \in 1..MaxLimit, db \in BOOLEAN :
          \E df \in get_recent_transactions(limit, store, db) :
              last' = [op |-> "list", limit |-> limit, db |-> db,
                       raised |-> df.raised, columns |-> df.columns,
                       rows |-> df.rows, saved |-> saved,
                       rowsBefore |-> store]
    /\ saved' = <<>>
    /\ UNCHANGED <<store, uuidCount, autoOnly, vvars, uvars>>

Thresholds == {FloatV(7), FloatV(8)}
\* get_questionable_transactions(threshold)
ListQuestionable ==
    /\ \E threshold \in Thresholds, db \in BOOLEAN :
          \E df \in get_questionable_transactions(threshold, store, db) :
              last' = [op |-> "questionable", threshold |-> threshold,
                       db |-> db, columns |-> df.columns, rows |-> df.rows,
                       rowsBefore |-> store]
    /\ saved' = <<>>
    /\ UNCHANGED <<store, uuidCount, autoOnly, vvars, uvars>>

Next ==
    \/ LogTransaction
    \/ LogReceipt
    \/ UpdateCategory
    \/ BulkUpload
    \/ ListRecent
    \/ ListQuestionable
Spec == Init /\ [][Next]_vars

(***************************************************************************)
(* Properties of the store (Spec)                                          *)
(***************************************************************************)
ConfidenceColumns ==
    {"merchant_confidence", "amount_confidence", "category_confidence",
     "date_confidence"}

\* C3: every persisted transaction has its four confidences in [0,1] and a
\* category of the closed enum
C3_PersistedWellFormed ==
    \A i \in 1..Len(store) :
        /\ \A c \in ConfidenceColumns : InUnit(store[i][c])
        /\ store[i].category \in valid_categories

\* C9: an insert of a transaction without an id generates a non-empty id that
\* no persisted transaction has, stores the transaction under it and returns
\* it; while only such inserts have happened, the persisted ids are distinct
Inserted == last.op \in {"log_transaction", "log_receipt"}
C9_GeneratedIdFresh ==
    /\ (Inserted /\ ~last.explicit /\ last.ok) =>
          /\ last.id # ""
          /\ last.id \notin last.idsBefore
          /\ Len(store) >= 1
          /\ store[Len(store)].id = last.id
    /\ autoOnly =>
          \A i, j \in 1..Len(store) : i # j => store[i].id # store[j].id
C9_Witness ==
    /\ Inserted /\ ~last.explicit /\ last.ok
    /\ Len(store) = 2
    /\ autoOnly
    /\ last.idsBefore # {}

\* the row of the listing that shows the saved transaction: its id and every
\* value the transaction carries, numbers compared as numbers and the date as
\* the timestamp it denotes
ShowsColumns(r, td) ==
    /\ \A k \in {"merchant", "description", "category"} :
          k \in DOMAIN td => r[k] = td[k].v
    /\ \A k \in {"amount"} \cup ConfidenceColumns :
          k \in DOMAIN td => r[k] = PyFloat(td[k]).val
    /\ "is_reconciled" \in DOMAIN td => r.is_reconciled = td.is_reconciled.v
    /\ "date" \in DOMAIN td => r.date = ToTimestamp(td.date).val
ShowsMetadata(r, td) ==
    "metadata" \in DOMAIN td
        => ("metadata" \in DOMAIN r /\ r.metadata = td.metadata.v)
ListedAfterSave == last.op = "list" /\ last.saved # <<>>
NotOlder ==
    {i \in 1..(Len(store) - 1) :
        TsKey(store[i].date) >= TsKey(store[Len(store)].date)}
Updated == last.op = "update_category"
WriteFailed == (Inserted \/ Updated) /\ last.stmt = "failed"

Listed == last.op = "list"
\* C12: when the read behind the listing fails, get_recent_transactions
\* returns the frame with the transaction columns and no rows, raises
\* nothing, and the persisted transactions are unchanged
C12_ReadFailureGivesEmpty ==
    (Listed /\ ~last.db) =>
        /\ ~last.raised
        /\ last.rows = <<>>
        /\ last.columns = TableColumns
        /\ store = last.rowsBefore
C12_Witness ==
    /\ Listed /\ ~last.db
    /\ Len(store) = 2

\* C13: update_category of a persisted transaction with a category of the
\* closed enum, the store being reachable, returns True and leaves that
\* transaction with the new category and confidence, every other field, every
\* other transaction and the persisted ids as they were
C13_UpdateApplied ==
    (/\ Updated /\ last.db
     /\ last.id \in Ids(last.rowsBefore)
     /\ last.category \in valid_categories) =>
        /\ last.ok /\ last.flag
        /\ Len(store) = Len(last.rowsBefore)
        /\ \A i \in 1..Len(store) :
              IF last.rowsBefore[i].id = last.id
              THEN store[i] = [last.rowsBefore[i] EXCEPT
                                   !.category = last.category,
                                   !.category_confidence = last.confidence]
              ELSE store[i] = last.rowsBefore[i]

(***************************************************************************)
(* app.py: the upload tab.  Every interaction is one run of the script:     *)
(* the Process Receipt handler first, then the save section.  The history   *)
(* tab only reads the store and is left out.                                *)
(***************************************************************************)
MaxReceipts == 2
MaxSaves == 3

SetKey(f, k, val) == [x \in DOMAIN f \cup {k} |-> IF x = k THEN val ELSE f[x]]
DelKey(f, k) == [x \in DOMAIN f \ {k} |-> f[x]]

\* uploaded_file: its extension and its bytes ("binary": bytes that are no
\* UTF-8 text); NoFile when nothing was uploaded
NoFile == [ext |-> "", bytes |-> "none"]
UploadedFiles ==
    {NoFile} \cup [ext : {"pdf", "png"}, bytes : {"data"}]
        \cup [ext : {"txt"}, bytes : {"binary"}]
PastedTexts == {"", "LATTE 4.50"}
\* what the bytes of an uploaded text file decode to
FileText == "TOTAL 12.50"
\* the replies of the LLM in this tab: a receipt with a date that is not
\* zero-padded, and a refund
UiReplies ==
    {MakeReply(Pair(FloatV(125), FloatV(9)), Pair(Str("Starbucks"), FloatV(8)),
               Pair(Str("2024-1-5"), FloatV(9)), Pair(Str("Meals"), FloatV(9)),
               Absent),
     MakeReply(Pair(FloatV(-125), FloatV(9)), Absent, Absent, Absent, Absent)}

\* what the user supplies: pasted text or nothing, or a file whose text
\* extraction gives nothing (a file with a text layer goes the way of pasted
\* text, and the pasted text is not read when a file is there)
UiInputs ==
    [file : {NoFile}, text : PastedTexts, ext : {""}]
        \cup [file : UploadedFiles \ {NoFile}, text : {""}, ext : {""}]
\* the outcome of the LLM request: the call raises, the reply is no JSON, or
\* it decodes to data
LlmResults ==
    [llm : {"error", "badjson"}, data : {EmptyObj}]
        \cup [llm : {"json"}, data : UiReplies]

\* a handler that calls the extractor whatever it was given
SuppliedAlways(uploaded_file, receipt_text) == TRUE
\* line 55: uploaded_file or receipt_text
Supplied(uploaded_file, receipt_text) ==
    uploaded_file # NoFile \/ receipt_text # ""

\* lines 64-73: file_type as the handler sets it ("none" is None)
FileType(uploaded_file) ==
    IF uploaded_file.ext = "pdf" THEN "pdf"
    ELSE IF uploaded_file.ext \in ImageTypes THEN uploaded_file.ext
    ELSE "none"

\* st.number_input(value=..., min_value=0.0) rejects a value below min_value
FormRenders(receipt_data) == Tenths(receipt_data.amount.value) >= 0
\* lines 138-197: what the save section shows for a session; "exception" is
\* an exception no handler of app.py catches
SaveSection(sess) ==
    IF "receipt_data" \notin DOMAIN sess THEN {}
    ELSE IF ~sess.form_submitted
    THEN (IF FormRenders(sess.receipt_data) THEN {"save_form"}
          ELSE {"exception"})
    ELSE {"success", "new_button"}

\* lines 54-134: ext is what the text extraction of the file gives, llm and
\* data the outcome of the LLM request
ProcessHandler(uploaded_file, receipt_text, ext, llm, data, sess) ==
    IF ~Supplied(uploaded_file, receipt_text)
    THEN [session |-> sess, shown |-> {"warning"}, stored |-> FALSE,
          processCalls |-> 0, llmCalls |-> 0, failure |-> "none"]
    ELSE IF uploaded_file.ext = "txt" /\ uploaded_file.bytes = "binary"
    THEN [session |-> sess, shown |-> {"error_processing"}, stored |-> FALSE,
          processCalls |-> 0, llmCalls |-> 0, failure |-> "decode"]
    ELSE LET file == [bytes |-> uploaded_file.bytes,
                      type |-> FileType(uploaded_file)]
             extracted_text ==
                 IF uploaded_file = NoFile THEN receipt_text
                 ELSE IF uploaded_file.ext = "txt" THEN FileText
                 ELSE ext
             r == process_receipt(file, extracted_text, ext, llm, data)
         IN  [session |-> SetKey(SetKey(sess, "receipt_data", r.result),
                                 "analysis_time", "now"),
              shown |-> {"analysis_results"}, stored |-> TRUE,
              processCalls |-> 1,
              llmCalls |-> IF r.failed = "pdf" THEN 0 ELSE 1,
              failure |-> IF r.failed # "none" THEN r.failed
                          ELSE IF file.type \in ImageTypes /\ ext = ""
                          THEN "ocr" ELSE "none"]

\* date.strftime('%Y-%m-%d')
Pad2(n) == IF n < 10 THEN "0" \o ToString(n) ELSE ToString(n)
Strftime(p) == ToString(p.y) \o "-" \o Pad2(p.m) \o "-" \o Pad2(p.d)
\* datetime.now().date()
Today == [ok |-> TRUE, y |-> 2024, m |-> 6, d |-> 1]
\* lines 165-170 and 180: the date the form hands back
FormDate(receipt_data) ==
    IF receipt_data.date.value # ""
    THEN Strftime(Strptime(receipt_data.date.value))
    ELSE Strftime(Today)

\* a save that leaves the form open
SavedSessionOpen(sess, transaction_id) ==
    SetKey(sess, "last_transaction_id", transaction_id)
\* lines 184-185
SavedSession(sess, transaction_id) ==
    SetKey(SetKey(sess, "form_submitted", TRUE),
           "last_transaction_id", transaction_id)

\* lines 174-188: the form submitted with the amount the user left in it;
\* copy() is shallow, so the edits reach the receipt_data of the session
SaveHandler(amount, sess, rows, n, db) ==
    LET receipt_data ==
            [sess.receipt_data EXCEPT
                 !.amount.value = amount,
                 !.date.value = FormDate(sess.receipt_data)]
        edited == SetKey(sess, "receipt_data", receipt_data)
        r == log_receipt_transaction(receipt_data, rows, n, db)
    IN  IF r.returned
        THEN [session |-> SavedSession(edited, r.id), shown |-> {},
              rerun |-> TRUE, result |-> r]
        ELSE [session |-> edited, shown |-> {"save_form", "error_saving"},
              rerun |-> FALSE, result |-> r]

\* a New Transaction that only reopens the form
NewTransactionKeepsData(sess) == SetKey(sess, "form_submitted", FALSE)
\* lines 193-197
NewTransaction(sess) ==
    DelKey(DelKey(SetKey(sess, "form_submitted", FALSE), "receipt_data"),
           "last_transaction_id")

\* In ui, sessionKept tells whether the interaction left the session as it
\* was, storeKept whether every row persisted before it is still there
\* unchanged, and rowsAdded how many rows it added.

\* the Process Receipt button
PressProcess ==
    /\ Len(held.inserts) < MaxReceipts
    /\ \E in \in UiInputs, out \in LlmResults :
          \E h \in {ProcessHandler(in.file, in.text, in.ext, out.llm,
                                   out.data, session)} :
              /\ session' = h.session
              /\ ui' = [op |-> "process", file |-> in.file,
                        text |-> in.text,
                        page |-> h.shown \cup SaveSection(h.session),
                        processCalls |-> h.processCalls,
                        llmCalls |-> h.llmCalls, failure |-> h.failure,
                        ok |-> h.stored, id |-> "", stmt |-> "none",
                        sessionKept |-> (h.session = session),
                        storeKept |-> TRUE, rowsAdded |-> 0]
              /\ held' = IF h.stored
                         THEN [serial |-> Len(held.inserts) + 1,
                               inserts |-> Append(held.inserts, 0)]
                         ELSE held
    /\ UNCHANGED <<vvars, svars>>

\* the Save Transaction button of the form, when the form is on the page
PressSave ==
    /\ SaveSection(session) = {"save_form"}
    /\ uuidCount < MaxSaves
    /\ \E amount \in {session.receipt_data.amount.value, FloatV(70)},
          db \in BOOLEAN :
          \E h \in {SaveHandler(amount, session, store, uuidCount, db)} :
              /\ session' = h.session
              /\ store' = h.result.rows
              /\ uuidCount' = h.result.uuids
              /\ ui' = [op |-> "save", file |-> NoFile, text |-> "",
                        page |-> IF h.rerun THEN SaveSection(h.session)
                                 ELSE h.shown,
                        processCalls |-> 0, llmCalls |-> 0,
                        failure |-> "none", ok |-> h.result.returned,
                        id |-> h.result.id, stmt |-> h.result.stmt,
                        sessionKept |-> (h.session = session),
                        storeKept |->
                            (SubSeq(h.result.rows, 1, Len(store)) = store),
                        rowsAdded |-> Len(h.result.rows) - Len(store)]
              /\ held' = IF h.result.returned
                         THEN [held EXCEPT !.inserts[held.serial] = @ + 1]
                         ELSE held
    /\ UNCHANGED <<vvars, last, saved, autoOnly>>

\* the New Transaction button, when the success message is on the page
PressNew ==
    /\ "new_button" \in SaveSection(session)
    /\ session' = NewTransaction(session)
    /\ ui' = [op |-> "new", file |-> NoFile, text |-> "",
              page |-> SaveSection(NewTransaction(session)),
              processCalls |-> 0, llmCalls |-> 0, failure |-> "none",
              ok |-> TRUE, id |-> "", stmt |-> "none",
              sessionKept |-> (NewTransaction(session) = session),
              storeKept |-> TRUE, rowsAdded |-> 0]
    /\ held' = [held EXCEPT !.serial = 0]
    /\ UNCHANGED <<vvars, svars>>

NextUI == PressProcess \/ PressSave \/ PressNew
SpecUI == Init /\ [][NextUI]_vars

(***************************************************************************)
(* Properties of the upload tab (SpecUI)                                   *)
(***************************************************************************)
Processed == ui.op = "process"
SaveSubmitted == ui.op = "save"
SaveFailed == SaveSubmitted /\ ui.stmt = "failed"

\* C14: when the insert of a confirm-save fails, the error is shown,
\* form_submitted stays false, no last_transaction_id is set, the store has
\* no new row and the save form is offered again
C14_FailedSaveNotSaved ==
    SaveFailed =>
        /\ "error_saving" \in ui.page
        /\ ~session.form_submitted
        /\ "last_transaction_id" \notin DOMAIN session
        /\ ui.storeKept /\ ui.rowsAdded = 0
        /\ "save_form" \in ui.page
        /\ SaveSection(session) = {"save_form"}
C14_Witness ==
    /\ SaveFailed
    /\ Len(store) >= 1
    /\ session.receipt_data.amount.value = FloatV(70)

IsDefaultExtraction(rd) ==
    [rd EXCEPT !.description = ""] = DefaultExtraction("")
ExtractionFailed ==
    Processed /\ ui.failure \in {"ocr", "pdf", "error", "badjson"}
\* C15: a Process Receipt interaction in which the text extraction of the
\* file, the LLM call or the decoding of its reply fails leaves a default
\* extraction in the session, shows the error banner, and ends without an
\* uncaught exception
C15_FailureShowsBanner ==
    ExtractionFailed =>
        /\ "error_processing" \in ui.page
        /\ "receipt_data" \in DOMAIN session
        /\ IsDefaultExtraction(session.receipt_data)
        /\ "exception" \notin ui.page

\* C16: no extraction held in the session leads to more than one successful
\* insert, and a successful Save adds exactly one row
C16_PersistedOnce ==
    /\ \A i \in 1..Len(held.inserts) : held.inserts[i] <= 1
    /\ (SaveSubmitted /\ ui.ok) =>
          /\ ui.rowsAdded = 1
          /\ ui.storeKept
C16_Witness ==
    /\ SaveSubmitted /\ ui.ok
    /\ held.inserts = <<1, 1>>
    /\ uuidCount = 3

NothingSupplied == Processed /\ ui.file = NoFile /\ ui.text = ""
\* C19: Process Receipt with neither a file nor text calls neither
\* process_receipt nor the LLM, shows the warning, and leaves the session
\* (receipt_data and form_submitted with it) and the store as they were
C19_NoInputNoCall ==
    NothingSupplied =>
        /\ ui.processCalls = 0
        /\ ui.llmCalls = 0
        /\ "warning" \in ui.page
        /\ ui.sessionKept
        /\ ui.storeKept /\ ui.rowsAdded = 0
C19_Witness ==
    /\ NothingSupplied
    /\ "receipt_data" \in DOMAIN session
    /\ session.form_submitted
    /\ Len(store) >= 1

\* the extraction in the session has led to no successful insert
HoldsUnsaved ==
    /\ "receipt_data" \in DOMAIN session
    /\ held.serial # 0
    /\ held.inserts[held.serial] = 0
\* C20: whenever the session holds an extraction that has not been
\* persisted, form_submitted is false
C20_UnsavedIsConfirmable == HoldsUnsaved => ~session.form_submitted

(***************************************************************************)
(* Properties of the scorer (Spec)                                         *)
(***************************************************************************)
FloatOne == DoubleOfTenths(10)
FloatZero == DoubleOfTenths(0)
FloatEq(x, y) == x.mag = y.mag /\ (x.neg = y.neg \/ x.mag = NatZero)
AllConfidences(r, k) == \A c \in ConfidenceColumns : Tenths(r[c]) = k
\* 0.4*amount_confidence + 0.3*category_confidence + 0.2*merchant_confidence
\* + 0.1*date_confidence, in doubles
WeightedSum(r) ==
    FloatAdd(
        FloatAdd(
            FloatAdd(FloatMul(DoubleOfTenths(4), Double(r.amount_confidence)),
                     FloatMul(DoubleOfTenths(3), Double(r.category_confidence))),
            FloatMul(DoubleOfTenths(2), Double(r.merchant_confidence))),
        FloatMul(DoubleOfTenths(1), Double(r.date_confidence)))
\* C17: the quality_score of every listed transaction equals the weighted
\* sum of its confidences, is 1.0 when all four are 1, 0.0 when all four
\* are 0, and lies in [0,1]
C17_QualityScore ==
    Listed =>
        \A i \in 1..Len(last.rows) :
            LET r == last.rows[i]
                q == r.quality_score
            IN  /\ FloatEq(q, WeightedSum(r))
                /\ AllConfidences(r, 10) => FloatEq(q, FloatOne)
                /\ AllConfidences(r, 0) => FloatEq(q, FloatZero)
                /\ ~FloatLess(q, FloatZero)
                /\ ~FloatLess(FloatOne, q)

Questioned == last.op = "questionable"
Unscored(r) == [k \in DOMAIN r \ {"quality_score"} |-> r[k]]
Count(q, x) == Cardinality({i \in 1..Len(q) : q[i] = x})
UnscoredRows == [i \in 1..Len(last.rows) |-> Unscored(last.rows[i])]
\* some confidence among amount, category and merchant is below threshold
NamedLow(r, threshold) ==
    \E c \in {"amount_confidence", "category_confidence",
               "merchant_confidence"} : Tenths(r[c]) < Tenths(threshold)
\* C18: get_questionable_transactions(threshold) returns exactly the listed
\* transactions (the persisted ones when the read succeeds, none when it
\* fails) that have amount_confidence, category_confidence or
\* merchant_confidence below threshold, each as often as it is listed, in
\* ascending order of amount_confidence
C18_Questionable ==
    Questioned =>
        /\ \A i \in 1..Len(store) :
              Count(UnscoredRows, store[i]) =
                  IF last.db /\ NamedLow(store[i], last.threshold)
                  THEN Count(store, store[i]) ELSE 0
        /\ \A i \in 1..Len(last.rows) :
              \E j \in 1..Len(store) : store[j] = Unscored(last.rows[i])
        /\ \A i, j \in 1..Len(last.rows) :
              i < j => Tenths(last.rows[i].amount_confidence)
                           <= Tenths(last.rows[j].amount_confidence)
C18_Witness ==
    /\ Questioned /\ last.db
    /\ Len(last.rows) = 2
    /\ UnscoredRows = <<store[2], store[1]>>
    /\ Tenths(store[2].amount_confidence) < Tenths(store[1].amount_confidence)
    /\ TsKey(store[2].date) <= TsKey(store[1].date)

\* C21: in every session state form_submitted implies that receipt_data and
\* last_transaction_id are present and that last_transaction_id is the id a
\* successful insert returned (the id of the save just made, and always the
\* id of a persisted row); form_submitted is false initially, and New
\* Transaction leaves no receipt_data, no last_transaction_id and
\* form_submitted false
C21_SubmittedHasId ==
    /\ session.form_submitted =>
          /\ "receipt_data" \in DOMAIN session
          /\ "last_transaction_id" \in DOMAIN session
          /\ session.last_transaction_id \in Ids(store)
    /\ (SaveSubmitted /\ ui.ok) =>
          /\ session.form_submitted
          /\ session.last_transaction_id = ui.id
    /\ ui = NoInteraction => ~session.form_submitted
    /\ ui.op = "new" =>
          /\ ~session.form_submitted
          /\ "receipt_data" \notin DOMAIN session
          /\ "last_transaction_id" \notin DOMAIN session
\* a second receipt saved: the form was reopened by New Transaction between
\* the two successful inserts
C21_Witness ==
    /\ SaveSubmitted /\ ui.ok
    /\ session.form_submitted
    /\ Len(store) = 2
    /\ session.last_transaction_id = store[2].id

(***************************************************************************)
(* Independence of the top-level fields (SpecV)                            *)
(***************************************************************************)
\* a field the reply carries that is no object, or whose value or confidence
\* cannot be coerced (for line_items: no list, or an item that cannot be)
Malformed(data, key) ==
    /\ HasField(data, key)
    /\ \/ FieldAlone(data, key).raised
       \/ key = "line_items" /\ data.v.line_items.t # "list"
MalformedFields(data) ==
    {key \in {"amount", "merchant", "category", "line_items"} :
        Malformed(data, key)}
ExactlyOneMalformed(data) ==
    /\ data.t = "obj"
    /\ Cardinality(MalformedFields(data)) = 1
    /\ ~FieldAlone(data, "date").raised

\* C22: when exactly one of amount, merchant, category and line_items is
\* malformed, that field takes its default and every other field keeps the
\* value it is coerced to on its own, wherever the malformed field stands in
\* the validation order
C22_FieldsIndependent ==
    (Validated /\ ExactlyOneMalformed(reply)) =>
        \A k \in 1..5 :
            vout[FieldOrder[k]] =
                IF FieldOrder[k] \in MalformedFields(reply)
                THEN DefaultExtraction(vcall.t)[FieldOrder[k]]
                ELSE FieldAlone(reply, FieldOrder[k]).v[FieldOrder[k]]
\* C22, as far as the code goes: the same, when the malformed field is the
\* last one validated
C22_LastFieldIndependent ==
    (Validated /\ ExactlyOneMalformed(reply)
       /\ MalformedFields(reply) = {"line_items"}) =>
        \A k \in 1..5 :
            vout[FieldOrder[k]] =
                IF FieldOrder[k] = "line_items"
                THEN <<>>
                ELSE FieldAlone(reply, FieldOrder[k]).v[FieldOrder[k]]
\* a reply whose only malformed field is the amount and whose merchant is
\* well-formed, validated
C22_AmountMalformed ==
    /\ Validated /\ ExactlyOneMalformed(reply)
    /\ MalformedFields(reply) = {"amount"}
    /\ HasObject(reply, "merchant")
    /\ reply.v.merchant = Pair(Str("Starbucks"), FloatV(8))
    /\ vout.merchant = [value |-> "", confidence |-> IntV(0)]

====
